---- MODULE Spec2Model ----
(***************************************************************************)
(* dndamage (src/main.rs): expected damage of d20 attacks and turns, the    *)
(* Favored Foe and Hunter's Mark transformations and the Hunter's Mark      *)
(* break-even computation.                                                  *)
(*                                                                          *)
(* f32 values are modelled as exact rationals [n |-> numerator,             *)
(* d |-> denominator > 0] in lowest terms; the non-finite results of an f32 *)
(* division (infinities, NaN) are modelled explicitly in F32Div.  i32       *)
(* values are integers; the saturating cast and the overflowing addition of *)
(* breakeven are modelled where the code performs them.                     *)
(***************************************************************************)
EXTENDS Integers, Sequences, FiniteSets

VARIABLES
    atk,        \* the Attack whose expected damage is asked for
    ac,         \* the armor class (defense) argument
    turn,       \* the Turn value the caller holds
    cur,        \* the Turn being evaluated: turn, or turn.foe()
    hm,         \* the HuntersMark returned by turn.mark()
    be,         \* the outcome of HuntersMark::breakeven
    pc,         \* position of the caller
    idx,        \* position of the iterator in Turn::expected_damage
    total,      \* local `total` of Turn::expected_damage
    miss,       \* local `miss` of Turn::expected_damage
    first_crit, \* local `first_crit` of Turn::expected_damage
    hc,         \* last value returned by Attack::hit_chance
    result      \* last value returned by expected_damage

vars == <<atk, ac, turn, cur, hm, be, pc, idx, total, miss, first_crit, hc, result>>

----------------------------------------------------------------------------
(* Bounds of the model *)

\* largest armor class asked for
MaxDefense == 22
\* largest hit bonus of an attack evaluated on its own
MaxHit == 20
\* largest number of attacks of a generated turn (both lists together)
MaxAttacks == 3

----------------------------------------------------------------------------
(* f32 arithmetic, exact *)

Abs(x) == IF x < 0 THEN -x ELSE x

Min(a, b) == IF a < b THEN a ELSE b

Max(a, b) == IF a > b THEN a ELSE b

RECURSIVE GCD(_, _)
GCD(a, b) == IF b = 0 THEN a ELSE GCD(b, a % b)

\* the rational n/d (d # 0) in lowest terms with a positive denominator
Rat(n, d) ==
    LET g == GCD(Abs(n), Abs(d))
        s == IF d < 0 THEN -1 ELSE 1
    IN  [n |-> s * (n \div g), d |-> s * (d \div g)]

\* `x as f32` of an i32 x
F32(x) == [n |-> x, d |-> 1]

RatAdd(a, b) ==
    LET l == (a.d \div GCD(a.d, b.d)) * b.d
    IN  Rat(a.n * (l \div a.d) + b.n * (l \div b.d), l)

RatNeg(a) == [n |-> -a.n, d |-> a.d]

RatSub(a, b) == RatAdd(a, RatNeg(b))

RatMul(a, b) ==
    LET g1 == GCD(Abs(a.n), b.d)
        g2 == GCD(Abs(b.n), a.d)
    IN  Rat((a.n \div g1) * (b.n \div g2), (a.d \div g2) * (b.d \div g1))

RatLeq(a, b) == RatSub(a, b).n <= 0

RatLt(a, b) == RatSub(a, b).n < 0

\* f32::ceil and f32::trunc of a finite value, as integers
Ceil(a) == -((-a.n) \div a.d)

Trunc(a) == IF a.n >= 0 THEN a.n \div a.d ELSE -((-a.n) \div a.d)

\* f32 division: a zero divisor gives an infinity or NaN, not an error
F32Div(a, b) ==
    IF b.n # 0 THEN [kind |-> "finite", v |-> RatMul(a, Rat(b.d, b.n))]
    ELSE IF a.n > 0 THEN [kind |-> "inf", v |-> F32(0)]
    ELSE IF a.n < 0 THEN [kind |-> "neg_inf", v |-> F32(0)]
    ELSE [kind |-> "nan", v |-> F32(0)]

I32_MAX == 2147483647

I32_MIN == -I32_MAX - 1

\* faulty variant: the quotient is truncated, not rounded up
CeilAsI32_trunc(q) ==
    CASE q.kind = "finite" -> Max(-I32_MAX - 1, Min(I32_MAX, Trunc(q.v)))
      [] q.kind = "inf" -> I32_MAX
      [] q.kind = "neg_inf" -> -I32_MAX - 1
      [] q.kind = "nan" -> 0

\* `x.ceil() as i32`: the cast saturates, and NaN casts to 0
CeilAsI32(q) ==
    CASE q.kind = "finite" -> Max(I32_MIN, Min(I32_MAX, Ceil(q.v)))
      [] q.kind = "inf" -> I32_MAX
      [] q.kind = "neg_inf" -> I32_MIN
      [] q.kind = "nan" -> 0

----------------------------------------------------------------------------
(* Dice *)

\* expected_value!(n): (1.0 + n as f32) / 2.0
expected_value(n) == Rat(1 + n, 2)

d4 == expected_value(4)

d6 == expected_value(6)

d10 == expected_value(10)

----------------------------------------------------------------------------
(* Types *)

MkDamage(dmg, fixed) == [dmg |-> dmg, fixed |-> fixed]

\* Damage::default()
DamageDefault == MkDamage(F32(0), 0)

MkAttack(hit, dmg, crit) == [hit |-> hit, dmg |-> dmg, crit |-> crit]

\* Attack::default()
AttackDefault == MkAttack(0, DamageDefault, DamageDefault)

MkTurn(action, bonus_action, once_on_hit) ==
    [action |-> action, bonus_action |-> bonus_action, once_on_hit |-> once_on_hit]

\* Turn::default()
TurnDefault == MkTurn(<<>>, <<>>, DamageDefault)

----------------------------------------------------------------------------
(* Methods *)

Damage_hit(self) == RatAdd(self.dmg, F32(self.fixed))

\* faulty variant: a critical hit doubles the fixed damage too
Damage_crit_doubles_fixed(self) == RatAdd(Damage_hit(self), Damage_hit(self))

\* critical hit doubles non-fixed damage
Damage_crit(self) == RatAdd(self.dmg, Damage_hit(self))

\* faulty variant: the clamp bounds are 1 and 19
Attack_hit_chance_clamp_1_19(self, a) == Rat(Min(19, Max(1, 20 + self.hit - a)), 20)

\* faulty variant: no lower clamp
Attack_hit_chance_no_floor(self, a) == Rat(Min(18, 20 + self.hit - a), 20)

\* faulty variant: the upper clamp counts the natural 20
Attack_hit_chance_ceiling_19(self, a) == Rat(Min(19, Max(0, 20 + self.hit - a)), 20)

\* excludes natural 20, treats natural 1 as a miss
Attack_hit_chance(self, a) == Rat(Min(18, Max(0, 20 + self.hit - a)), 20)

crit_chance == Rat(1, 20)

Attack_expected_damage(self, a) ==
    RatAdd(RatMul(Attack_hit_chance(self, a), Damage_hit(self.dmg)),
           RatMul(crit_chance, RatAdd(Damage_crit(self.dmg), Damage_crit(self.crit))))

----------------------------------------------------------------------------
(* Trait methods: Add *)

\* impl Add for Damage
Damage_add(self, other) ==
    MkDamage(RatAdd(self.dmg, other.dmg), self.fixed + other.fixed)

\* faulty variant: the damage is added to the crit damage too
Attack_add_damage_to_crit(self, dmg) ==
    MkAttack(self.hit, Damage_add(self.dmg, dmg), Damage_add(self.crit, dmg))

\* impl Add<Damage> for Attack
Attack_add_damage(self, dmg) ==
    MkAttack(self.hit, Damage_add(self.dmg, dmg), self.crit)

\* impl Add<Damage> for Turn
Turn_add_damage(self, dmg) ==
    MkTurn([i \in 1..Len(self.action) |-> Attack_add_damage(self.action[i], dmg)],
           [i \in 1..Len(self.bonus_action) |->
                Attack_add_damage(self.bonus_action[i], dmg)],
           self.once_on_hit)

----------------------------------------------------------------------------
(* Turn methods *)

\* faulty variant: Favored Foe adds a d6
Turn_foe_d6(self) ==
    MkTurn(self.action, self.bonus_action,
           Damage_add(self.once_on_hit, MkDamage(d6, 0)))

\* Favored Foe
Turn_foe(self) ==
    MkTurn(self.action, self.bonus_action,
           Damage_add(self.once_on_hit, MkDamage(d4, 0)))

\* faulty variant: the first turn drops the action attacks, not the bonus
\* action attacks
Turn_mark_drops_action(self) ==
    [unmodified |-> self,
     first_turn |-> MkTurn(<<>>, self.bonus_action, self.once_on_hit),
     max_damage |-> Turn_add_damage(self, MkDamage(d6, 0))]

\* Hunter's Mark
Turn_mark(self) ==
    LET bonus == MkDamage(d6, 0)
        mark == Turn_add_damage(self, bonus)
    IN  [unmodified |-> self,
         first_turn |-> MkTurn(self.action, <<>>, self.once_on_hit),
         max_damage |-> mark]

----------------------------------------------------------------------------
(* impl ExpectedDamage for Turn *)

\* faulty variant: the bonus-action attacks are left out
Chain_action_only(self) == self.action

\* self.action.iter().chain(self.bonus_action.iter())
Chain(self) == self.action \o self.bonus_action

\* the locals before the loop
LoopInit == [total |-> F32(0), miss |-> F32(1), first_crit |-> F32(0)]

\* faulty variant: first_crit is not weighted by the miss chain
LoopBody_crit_unweighted(st, d, a) ==
    [total |-> RatAdd(st.total, Attack_expected_damage(d, a)),
     first_crit |-> RatAdd(st.first_crit, Rat(1, 20)),
     miss |-> RatMul(st.miss,
                     RatSub(F32(1), RatAdd(Attack_hit_chance(d, a), Rat(1, 20))))]

\* faulty variant: miss is updated before first_crit reads it
LoopBody_miss_first(st, d, a) ==
    LET m == RatMul(st.miss,
                    RatSub(F32(1), RatAdd(Attack_hit_chance(d, a), Rat(1, 20))))
    IN  [total |-> RatAdd(st.total, Attack_expected_damage(d, a)),
         first_crit |-> RatAdd(st.first_crit, RatMul(Rat(1, 20), m)),
         miss |-> m]

\* one iteration of the loop, for the attack d
LoopBody(st, d, a) ==
    [total |-> RatAdd(st.total, Attack_expected_damage(d, a)),
     first_crit |-> RatAdd(st.first_crit, RatMul(crit_chance, st.miss)),
     miss |-> RatMul(st.miss,
                     RatSub(F32(1), RatAdd(Attack_hit_chance(d, a), crit_chance)))]

\* the two statements after the loop, and the value returned
LoopFinish(st, once_on_hit) ==
    RatAdd(RatAdd(st.total,
                  RatMul(RatSub(F32(1), st.miss), Damage_hit(once_on_hit))),
           RatMul(st.first_crit, once_on_hit.dmg))

RECURSIVE LoopRun(_, _, _, _)
LoopRun(st, ds, i, a) ==
    IF i > Len(ds) THEN st ELSE LoopRun(LoopBody(st, ds[i], a), ds, i + 1, a)

\* the whole call, as breakeven makes it
Turn_expected_damage(self, a) ==
    LoopFinish(LoopRun(LoopInit, Chain(self), 1, a), self.once_on_hit)

----------------------------------------------------------------------------
(* HuntersMark::breakeven *)

\* `1 + x` on i32: an overflow panics in a debug build and wraps in a
\* release build
I32AddOne(x) ==
    IF x = I32_MAX
    THEN {[panicked |-> TRUE, v |-> 0], [panicked |-> FALSE, v |-> I32_MIN]}
    ELSE {[panicked |-> FALSE, v |-> 1 + x]}

\* the outcomes of self.breakeven(a): the tuple returned, with the f32 class
\* of the quotient the round count was cast from, or a panic
HuntersMark_breakeven(self, a) ==
    LET base == Turn_expected_damage(self.unmodified, a)
        first == Turn_expected_damage(self.first_turn, a)
        max == Turn_expected_damage(self.max_damage, a)
        q == F32Div(RatSub(base, first), RatSub(max, base))
    IN  { [panicked |-> r.panicked, max |-> max, rounds |-> r.v,
           deficit |-> RatSub(first, base), quotient |-> q.kind] :
              r \in I32AddOne(CeilAsI32(q)) }

----------------------------------------------------------------------------
(* Inputs *)

Defenses == 0..MaxDefense

\* hit bonuses from the sharpshooter penalty (hit: -5) upwards
HitBonuses == (0 - 5)..MaxHit

\* on-hit damage values of the attacks evaluated on their own
HitDamages ==
    { DamageDefault, MkDamage(F32(0), 20), MkDamage(F32(20), 0),
      MkDamage(F32(20), 20), MkDamage(d6, 6), MkDamage(d6, 5) }

\* crit-only damage values of the attacks evaluated on their own
CritDamages ==
    { DamageDefault, MkDamage(F32(10), 0), MkDamage(F32(0), 20),
      MkDamage(d6, 0), MkDamage(d4, 3) }

Attacks ==
    { MkAttack(h, dd, cd) : h \in HitBonuses, dd \in HitDamages, cd \in CritDamages }

\* the attacks the generated turns are made of
ZeroAttack == AttackDefault

MarkAttack(h) == MkAttack(h, MkDamage(d6, 5), MkDamage(d4, 3))

TurnAttacks == { ZeroAttack, MarkAttack(12) }

OnceDamages ==
    { DamageDefault, MkDamage(F32(0), 20), MkDamage(F32(20), 0), MkDamage(d10, 4) }

\* vec![a; n]
Repeat(a, n) == [i \in 1..n |-> a]

RECURSIVE SeqsOfLen(_, _)
SeqsOfLen(S, n) ==
    IF n = 0 THEN { <<>> }
    ELSE { Append(s, x) : s \in SeqsOfLen(S, n - 1), x \in S }

\* every split of every sequence of at most MaxAttacks attacks into the
\* action and bonus_action lists
BoundedTurns ==
    UNION { { MkTurn(SubSeq(s, 1, k), SubSeq(s, k + 1, Len(s)), o) :
                k \in 0..n, s \in SeqsOfLen(TurnAttacks, n), o \in OnceDamages } :
            n \in 0..MaxAttacks }

\* the turns of the tests that are longer than MaxAttacks or use other attacks
TestMarkTurn ==
    MkTurn(Repeat(MarkAttack(1), 3), Repeat(MarkAttack(12), 2), MkDamage(d10, 4))

TestOnceOneAttack(o) == MkTurn(<<MkAttack(20, DamageDefault, DamageDefault)>>, <<>>, o)

TestOnceAttacks(n, o) == MkTurn(Repeat(ZeroAttack, n), <<>>, o)

TestActionsAttack == MkAttack(0, MkDamage(F32(20), 20), DamageDefault)

TestTurns ==
    { TestMarkTurn,
      TestOnceOneAttack(MkDamage(F32(0), 20)), TestOnceOneAttack(MkDamage(F32(20), 0)),
      TestOnceAttacks(4, MkDamage(F32(0), 20)), TestOnceAttacks(4, MkDamage(F32(20), 0)),
      MkTurn(Repeat(TestActionsAttack, 1), <<>>, DamageDefault),
      MkTurn(Repeat(TestActionsAttack, 2), <<>>, DamageDefault),
      MkTurn(<<>>, Repeat(TestActionsAttack, 1), DamageDefault),
      MkTurn(<<>>, Repeat(TestActionsAttack, 2), DamageDefault),
      MkTurn(Repeat(TestActionsAttack, 2), Repeat(TestActionsAttack, 2), DamageDefault) }

Turns == BoundedTurns \cup TestTurns

\* values of the variables that hold nothing yet
NoValue == [none |-> TRUE]

----------------------------------------------------------------------------
(* The state machine *)

\* the caller holds an attack and an armor class
InitAttack ==
    /\ atk \in Attacks
    /\ turn = TurnDefault
    /\ pc = "attack"

\* the caller holds a turn and an armor class
InitTurn ==
    /\ atk = AttackDefault
    /\ turn \in Turns
    /\ pc = "turn"

Init ==
    /\ InitAttack \/ InitTurn
    /\ ac \in Defenses
    /\ cur = turn
    /\ hm = NoValue
    /\ be = NoValue
    /\ idx = 0
    /\ total = F32(0)
    /\ miss = F32(0)
    /\ first_crit = F32(0)
    /\ hc = NoValue
    /\ result = NoValue

\* atk.expected_damage(ac)
AttackExpectedDamage ==
    /\ pc = "attack"
    /\ hc' = Attack_hit_chance(atk, ac)
    /\ result' = Attack_expected_damage(atk, ac)
    /\ pc' = "attack_done"
    /\ UNCHANGED <<atk, ac, turn, cur, hm, be, idx, total, miss, first_crit>>

\* let cur = turn.foe()
Foe ==
    /\ pc = "turn"
    /\ cur' = Turn_foe(turn)
    /\ UNCHANGED <<atk, ac, turn, hm, be, pc, idx, total, miss, first_crit, hc, result>>

\* cur.expected_damage(ac): entry, up to the loop
TurnExpectedDamageBegin ==
    /\ pc = "turn"
    /\ total' = LoopInit.total
    /\ miss' = LoopInit.miss
    /\ first_crit' = LoopInit.first_crit
    /\ idx' = 1
    /\ pc' = "loop"
    /\ UNCHANGED <<atk, ac, turn, cur, hm, be, hc, result>>

\* cur.expected_damage(ac): one iteration of the loop
TurnExpectedDamageStep ==
    /\ pc = "loop"
    /\ idx <= Len(Chain(cur))
    /\ LET d == Chain(cur)[idx]
           st == LoopBody([total |-> total, miss |-> miss, first_crit |-> first_crit],
                          d, ac)
       IN  /\ total' = st.total
           /\ first_crit' = st.first_crit
           /\ miss' = st.miss
           /\ hc' = Attack_hit_chance(d, ac)
    /\ idx' = idx + 1
    /\ UNCHANGED <<atk, ac, turn, cur, hm, be, pc, result>>

\* cur.expected_damage(ac): the iterator is exhausted, the once-per-turn
\* terms are added and the total is returned
TurnExpectedDamageEnd ==
    /\ pc = "loop"
    /\ idx > Len(Chain(cur))
    /\ result' = LoopFinish([total |-> total, miss |-> miss, first_crit |-> first_crit],
                            cur.once_on_hit)
    /\ pc' = "done"
    /\ UNCHANGED <<atk, ac, turn, cur, hm, be, idx, total, miss, first_crit, hc>>

\* let hm = turn.mark()
Mark ==
    /\ pc = "turn"
    /\ cur = turn
    /\ hm' = Turn_mark(turn)
    /\ pc' = "marked"
    /\ UNCHANGED <<atk, ac, turn, cur, be, idx, total, miss, first_crit, hc, result>>

\* hm.breakeven(ac)
Breakeven ==
    /\ pc = "marked"
    /\ be' \in HuntersMark_breakeven(hm, ac)
    /\ pc' = "even"
    /\ UNCHANGED <<atk, ac, turn, cur, hm, idx, total, miss, first_crit, hc, result>>

Next ==
    \/ AttackExpectedDamage
    \/ Foe
    \/ TurnExpectedDamageBegin
    \/ TurnExpectedDamageStep
    \/ TurnExpectedDamageEnd
    \/ Mark
    \/ Breakeven

Spec == Init /\ [][Next]_vars

----------------------------------------------------------------------------
(* Properties: Attack *)

\* 20 + hit_bonus - defense of the attack evaluated
Margin == 20 + atk.hit - ac

\* C1 as stated: the hit chance of every attack at every defense is
\* clamp(20 + hit_bonus - defense, 1, 19) / 20.
C1_HitChanceClamp1To19 ==
    pc = "attack_done" =>
        LET m == IF Margin < 1 THEN 1 ELSE IF Margin > 19 THEN 19 ELSE Margin
        IN  20 * hc.n = m * hc.d

\* C1 amended: the hit chance of every attack at every defense is
\* clamp(20 + hit_bonus - defense, 0, 18) / 20: never below 0, never above
\* 18/20, and between those bounds exactly (20 + hit_bonus - defense) / 20.
C1_HitChanceClamp0To18 ==
    pc = "attack_done" =>
        /\ hc.d > 0
        /\ 0 <= hc.n
        /\ 20 * hc.n <= 18 * hc.d
        /\ Margin <= 0 => hc.n = 0
        /\ Margin >= 18 => 20 * hc.n = 18 * hc.d
        /\ (0 < Margin /\ Margin < 18) => 20 * hc.n = Margin * hc.d

\* an attack that cannot hit without a natural 20 has hit chance 0
C1_Witness ==
    /\ pc = "attack_done"
    /\ Margin < 0
    /\ hc = F32(0)

\* a * b, a + b, a - b on rationals
a ** b == RatMul(a, b)

a ++ b == RatAdd(a, b)

a -- b == RatSub(a, b)

\* (1/20) * ((2 * dmg.dmg + dmg.fixed) + (2 * crit.dmg + crit.fixed))
NaturalTwentyTerm(a) ==
    Rat(1, 20) ** (((F32(2) ** a.dmg.dmg) ++ F32(a.dmg.fixed))
                   ++ ((F32(2) ** a.crit.dmg) ++ F32(a.crit.fixed)))

TestCrossbow == MkAttack(12, MkDamage(d6, 6), MkDamage(d6, 0))

\* C2: the expected damage of an attack is hit_chance * (average_roll + flat)
\* plus 1/20 of the crit values, where only the average rolls are doubled;
\* crit-only damage yields 1.0 at any defense in the two test attacks, and
\* the reference crossbow yields 8.125 at defense 17.
C2_AttackExpectedDamage ==
    pc = "attack_done" =>
        /\ result = (hc ** (atk.dmg.dmg ++ F32(atk.dmg.fixed))) ++ NaturalTwentyTerm(atk)
        /\ (atk.dmg = DamageDefault
                /\ atk.crit \in {MkDamage(F32(10), 0), MkDamage(F32(0), 20)})
              => result = F32(1)
        /\ (atk = TestCrossbow /\ ac = 17) => result = Rat(8125, 1000)

C2_Witness ==
    /\ pc = "attack_done"
    /\ atk = TestCrossbow
    /\ ac = 17
    /\ result = Rat(65, 8)

TestFixed(h) == MkAttack(h, MkDamage(F32(0), 20), DamageDefault)

\* C3: the expected damage of an attack saturates: at every defense
\* >= 20 + hit_bonus only the natural-20 term remains, at every defense
\* <= 2 + hit_bonus it is 18/20 of the hit damage plus that term; the
\* fixed-damage attack of the tests has the stated values.
C3_Saturation ==
    pc = "attack_done" =>
        /\ ac >= 20 + atk.hit => result = NaturalTwentyTerm(atk)
        /\ ac <= 2 + atk.hit =>
             result = (Rat(18, 20) ** (atk.dmg.dmg ++ F32(atk.dmg.fixed)))
                        ++ NaturalTwentyTerm(atk)
        /\ (atk = TestFixed(0) /\ ac = 11) => result = F32(10)
        /\ (atk = TestFixed(0) /\ ac \in {20, 21}) => result = F32(1)
        /\ (atk = TestFixed(0) /\ ac \in {1, 2}) => result = F32(19)
        /\ (atk = TestFixed(5) /\ ac = 11) => result = F32(15)
        /\ (atk = TestFixed(5) /\ ac = 21) => result = F32(5)

C3_Witness ==
    /\ pc = "attack_done"
    /\ atk = TestFixed(0)
    /\ ac = 1
    /\ result = F32(19)

----------------------------------------------------------------------------
(* Properties: Turn *)

\* probability that the attack d qualifies: ordinary hit or critical
Qualify(d) == Attack_hit_chance(d, ac) ++ Rat(1, 20)

\* product over the first k attacks of ds of (1 - Qualify)
RECURSIVE MissAll(_, _)
MissAll(ds, k) ==
    IF k = 0 THEN F32(1) ELSE MissAll(ds, k - 1) ** (F32(1) -- Qualify(ds[k]))

\* sum over the first k attacks i of ds of (1/20) * MissAll(ds, i - 1)
RECURSIVE FirstCritWeight(_, _)
FirstCritWeight(ds, k) ==
    IF k = 0 THEN F32(0)
    ELSE FirstCritWeight(ds, k - 1) ++ (Rat(1, 20) ** MissAll(ds, k - 1))

\* sum over the first k attacks of ds of their expected damage
RECURSIVE SumAttacks(_, _)
SumAttacks(ds, k) ==
    IF k = 0 THEN F32(0)
    ELSE SumAttacks(ds, k - 1) ++ Attack_expected_damage(ds[k], ac)

\* the closed form of the expected damage of the turn t
ClosedForm(t) ==
    LET ds == t.action \o t.bonus_action
        n == Len(ds)
        once == t.once_on_hit
    IN  (SumAttacks(ds, n)
           ++ ((F32(1) -- MissAll(ds, n)) ** (once.dmg ++ F32(once.fixed))))
          ++ (FirstCritWeight(ds, n) ** once.dmg)

\* C4: Turn.expected_damage is one forward pass over primary then secondary
\* attacks; after k attacks miss is the product of the k total-miss chances and
\* first_crit the sum of (1/20) * (miss chain of the strictly earlier
\* attacks); the value returned is the sum of the attacks' expected damage
\* plus (1 - miss_all) * once.hit() plus first_crit_weight * once.average_roll.
C4_TurnExpectedDamage ==
    LET ds == cur.action \o cur.bonus_action
    IN  /\ pc = "loop" =>
            /\ idx \in 1..(Len(ds) + 1)
            /\ miss = MissAll(ds, idx - 1)
            /\ first_crit = FirstCritWeight(ds, idx - 1)
            /\ total = SumAttacks(ds, idx - 1)
        /\ pc = "done" => result = ClosedForm(cur)

\* a turn of attacks with different hit chances and a once-per-turn die
\* has been evaluated
C4_Witness ==
    /\ pc = "done"
    /\ cur = TestMarkTurn
    /\ ac = 18
    /\ result = ClosedForm(cur)
    /\ RatLt(Rat(1, 20), first_crit)

\* every attack of the turn t is the attack a
AllCopies(t, a) ==
    /\ \A i \in 1..Len(t.action) : t.action[i] = a
    /\ \A i \in 1..Len(t.bonus_action) : t.bonus_action[i] = a

\* C5: a turn of N copies of one attack, in either list or split between
\* them, with no once-per-turn damage, has N times the attack's expected
\* damage.
C5_Linearity ==
    (pc = "done" /\ cur.once_on_hit = DamageDefault) =>
        \A a \in TurnAttacks \cup {TestActionsAttack} :
            AllCopies(cur, a) =>
                result = F32(Len(cur.action) + Len(cur.bonus_action))
                            ** Attack_expected_damage(a, ac)

C5_Witness ==
    /\ pc = "done"
    /\ cur = MkTurn(Repeat(TestActionsAttack, 2), Repeat(TestActionsAttack, 2),
                    DamageDefault)
    /\ ac = 11
    /\ result = F32(84)

\* C6: hit_chance + 1/20 never exceeds 19/20, so one attack never makes the
\* once-per-turn damage certain: 19.0 for one attack at hit 20 against
\* defense 0 with once-per-turn flat 20, and 20 * (1 - 0.95^2),
\* 20 * (1 - 0.95^4) for two and four attacks at hit 0 against defense 20.
C6_QualifyAtMost19In20 ==
    /\ pc \in {"attack_done", "loop", "done"} /\ hc # NoValue =>
           RatLeq(hc ++ Rat(1, 20), Rat(19, 20))
    /\ (pc = "done" /\ cur = TestOnceOneAttack(MkDamage(F32(0), 20)) /\ ac = 0) =>
           result = F32(19)
    /\ (pc = "done" /\ cur = TestOnceAttacks(2, MkDamage(F32(0), 20)) /\ ac = 20) =>
           result = Rat(195, 100)
    /\ (pc = "done" /\ cur = TestOnceAttacks(4, MkDamage(F32(0), 20)) /\ ac = 20) =>
           result = F32(20) ** (F32(1) -- Rat(19 * 19 * 19 * 19, 20 * 20 * 20 * 20))

C6_Witness ==
    /\ pc = "done"
    /\ cur = TestOnceOneAttack(MkDamage(F32(0), 20))
    /\ ac = 0
    /\ hc = Rat(18, 20)
    /\ result = F32(19)

----------------------------------------------------------------------------
(* Properties: Hunter's Mark and Favored Foe *)

\* expected damage of the unmodified, first and sustained turns of hm
BaseDamage == ClosedForm(hm.unmodified)

FirstDamage == ClosedForm(hm.first_turn)

MaxDamage == ClosedForm(hm.max_damage)

\* c is the least integer with c >= l / g, for g # 0
IsCeilOfQuotient(c, l, g) ==
    IF g.n > 0
    THEN RatLeq(l, F32(c) ** g) /\ RatLt(F32(c - 1) ** g, l)
    ELSE RatLeq(F32(c) ** g, l) /\ RatLt(l, F32(c - 1) ** g)

\* f32::cmpable of the tests: (100.0 * x).trunc() as i32
cmpable(x) == Trunc(F32(100) ** x)

\* C7: with max # base, breakeven returns (max, rounds, deficit) with
\* deficit = first - base and rounds = 1 + ceil((base - first) / (max - base));
\* for the reference turn at defense 18 rounds = 4, the deficit truncates to
\* -18.63 and max is the expected damage of the turn with 3.5 added to every
\* attack's on-hit average roll.
C7_Breakeven ==
    (pc = "even" /\ MaxDamage # BaseDamage) =>
        /\ ~be.panicked
        /\ be.max = MaxDamage
        /\ be.deficit = FirstDamage -- BaseDamage
        /\ IsCeilOfQuotient(be.rounds - 1, BaseDamage -- FirstDamage,
                            MaxDamage -- BaseDamage)
        /\ (turn = TestMarkTurn /\ ac = 18) =>
             /\ be.rounds = 4
             /\ cmpable(be.deficit) = -1863
             /\ be.max = ClosedForm(
                    MkTurn([i \in 1..3 |-> MkAttack(1, MkDamage(F32(7), 5), MkDamage(d4, 3))],
                           [i \in 1..2 |-> MkAttack(12, MkDamage(F32(7), 5), MkDamage(d4, 3))],
                           MkDamage(d10, 4)))

C7_Witness ==
    /\ pc = "even"
    /\ turn = TestMarkTurn
    /\ ac = 18
    /\ MaxDamage # BaseDamage
    /\ be.rounds = 4

\* C8: when the sustained turn's expected damage equals the baseline's,
\* breakeven signals a defined "no break-even" outcome: it does not divide by
\* zero, does not derive the round count from an infinity or NaN, and does
\* not panic or overflow.
C8_NoDivisionByZero ==
    (pc = "even" /\ MaxDamage = BaseDamage) =>
        /\ ~be.panicked
        /\ be.quotient = "finite"

\* C9: mark(t) keeps t as the unmodified turn; the first turn has t's action
\* attacks, no bonus-action attacks and t's once-per-turn damage; the
\* max-damage turn has t's attacks in order, each with 3.5 more on-hit
\* average roll and the same hit bonus, on-hit flat damage and crit damage;
\* the once-per-turn damage is the same in all three.
C9_MarkStructure ==
    pc \in {"marked", "even"} =>
        LET Marked(a, b) ==
                /\ b.hit = a.hit
                /\ b.dmg.dmg = a.dmg.dmg ++ Rat(7, 2)
                /\ b.dmg.fixed = a.dmg.fixed
                /\ b.crit = a.crit
        IN  /\ hm.unmodified = turn
            /\ hm.first_turn.action = turn.action
            /\ Len(hm.first_turn.bonus_action) = 0
            /\ hm.first_turn.once_on_hit = turn.once_on_hit
            /\ Len(hm.max_damage.action) = Len(turn.action)
            /\ Len(hm.max_damage.bonus_action) = Len(turn.bonus_action)
            /\ \A i \in 1..Len(turn.action) :
                   Marked(turn.action[i], hm.max_damage.action[i])
            /\ \A i \in 1..Len(turn.bonus_action) :
                   Marked(turn.bonus_action[i], hm.max_damage.bonus_action[i])
            /\ hm.max_damage.once_on_hit = turn.once_on_hit

C9_Witness ==
    /\ pc = "marked"
    /\ Len(turn.action) = 3
    /\ Len(turn.bonus_action) = 2
    /\ turn.action[1] # turn.bonus_action[1]
    /\ hm.max_damage.bonus_action[2].dmg.dmg = F32(7)
    /\ hm.first_turn.bonus_action = <<>>

TestFoeTurn == MkTurn(<<AttackDefault>>, <<>>, DamageDefault)

\* foe() has been applied: cur is not the caller's turn
FoeApplied == cur # turn

\* C10: foe(t) has t's once-per-turn average roll plus 2.5, and t's
\* once-per-turn flat damage, action attacks and bonus-action attacks; t
\* itself is not modified; the turn of one zero-damage attack at hit 0 has
\* foe-expected damage (1/20) * 2 * 2.5 at defense 20.
C10_Foe ==
    /\ [](FoeApplied =>
            /\ cur.once_on_hit.dmg = turn.once_on_hit.dmg ++ Rat(25, 10)
            /\ cur.once_on_hit.fixed = turn.once_on_hit.fixed
            /\ cur.action = turn.action
            /\ cur.bonus_action = turn.bonus_action
            /\ (pc = "done" /\ turn = TestFoeTurn /\ ac = 20) =>
                   result = (Rat(1, 20) ** F32(2)) ** Rat(25, 10))
    /\ [][turn' = turn]_vars

C10_Witness ==
    /\ FoeApplied
    /\ pc = "done"
    /\ turn = TestFoeTurn
    /\ ac = 20
    /\ result = Rat(1, 4)

----------------------------------------------------------------------------
(* Properties: the running scalars, and the sign of the mark's gain *)

\* r to the power k
RECURSIVE RatPow(_, _)
RatPow(r, k) == IF k = 0 THEN F32(1) ELSE r ** RatPow(r, k - 1)

\* number of attacks the loop has processed
Processed == idx - 1

\* C11: after k iterations of the loop of Turn.expected_damage,
\* (1/20)^k <= miss <= (19/20)^k, so 0 < miss <= 1, and
\* 0 <= first_crit <= 1 - miss.
C11_RunningScalars ==
    pc \in {"loop", "done"} =>
        /\ RatLeq(RatPow(Rat(1, 20), Processed), miss)
        /\ RatLeq(miss, RatPow(Rat(19, 20), Processed))
        /\ miss.n > 0
        /\ RatLeq(miss, F32(1))
        /\ first_crit.n >= 0
        /\ RatLeq(first_crit, F32(1) -- miss)

\* three attacks that each qualify with probability 19/20 have been processed:
\* miss is at its lower bound and first_crit strictly below 1 - miss
C11_Witness ==
    /\ pc = "loop"
    /\ Processed = 3
    /\ miss = Rat(1, 8000)
    /\ RatLt(F32(0), first_crit)
    /\ RatLt(first_crit, F32(1) -- miss)

\* every damage component of the damage value x is non-negative
NonNegativeDamage(x) == x.dmg.n >= 0 /\ x.fixed >= 0

\* every damage component of the turn t is non-negative
NonNegativeTurn(t) ==
    /\ NonNegativeDamage(t.once_on_hit)
    /\ \A i \in 1..Len(t.action) :
           NonNegativeDamage(t.action[i].dmg) /\ NonNegativeDamage(t.action[i].crit)
    /\ \A i \in 1..Len(t.bonus_action) :
           /\ NonNegativeDamage(t.bonus_action[i].dmg)
           /\ NonNegativeDamage(t.bonus_action[i].crit)

C12_WitnessDeficit ==
    /\ pc = "even"
    /\ Len(turn.bonus_action) > 0
    /\ RatLt(FirstDamage, BaseDamage)
    /\ be.rounds > 1

====
